---- MODULE Spec2Model ----
(***************************************************************************)
(* The multi-agent query pipeline (main.py), its HTTP entry point (api.py) *)
(* and the document processor (processor.py).                              *)
(*                                                                         *)
(* Text is a sequence of tokens: the empty string is << >>, concatenation  *)
(* is \o, and a formatted string is the sequence of its literal parts and  *)
(* of the values substituted into it.                                      *)
(***************************************************************************)
EXTENDS FiniteSets, Integers, Sequences, TLC

VARIABLES
    vectorstore,  \* the Chroma collection: the sequence of stored chunks
    heap,         \* dict objects (agent_outputs), by identity
    channels,     \* per execution: the graph's channel values (schema keys only)
    state,        \* per execution: the dict the running node was handed and mutates
    frame,        \* per execution: the running node's local variables
    pc,           \* per execution: where the execution is
    entry,        \* per execution: which caller invoked the chain
    started,      \* per execution: the nodes begun so far and their input states, in order
    calls,        \* per execution: the collaborator calls issued so far, in order
    writes,       \* per execution: the assignments to state keys executed so far, in order
    raised,       \* per execution: the exception that left chain.invoke, if any
    reply,        \* per execution: what the caller got back
    fs,           \* the file system: the entries that exist
    dpc,          \* where the Processor is
    job,          \* the directory scan under way: its arguments, locals and stats
    docLog,       \* the process_document calls made so far and how each went
    opLog         \* the operations a user asked of the Processor, with what they returned

pipelineVars == <<heap, channels, state, frame, pc, entry, started, calls, writes, raised, reply>>
processorVars == <<fs, dpc, job, docLog, opLog>>
vars == <<vectorstore, heap, channels, state, frame, pc, entry, started, calls, writes, raised,
          reply, fs, dpc, job, docLog, opLog>>

-----------------------------------------------------------------------------
(* Bounds of the model *)

\* chunks in the collection at the start of a single execution
MaxDocs == 4
\* chunks in the collection at the start of two concurrent executions
MaxDocsShared == 2

\* files on disk when the Processor starts
MaxFiles == 3
\* operations asked of one Processor
MaxOps == 1
\* how far the lengths of the texts to split lie from chunk_size
MaxSlack == 1

Execs == {1, 2}
FirstExec == {1}

Queries == {<< >>, <<"q1">>, <<"q2">>}
LLMOutputs == {<<"x">>, <<"y">>}
LLMErrors == {"UnavailableError", "TimeoutError"}
IndexErrors == {"IndexError"}

\* the chunks an earlier ingestion left in the collection
Corpus == [i \in 1..MaxDocs |-> [page_content |-> <<"passage", ToString(i)>>]]

-----------------------------------------------------------------------------
(* Text helpers *)

RECURSIVE join_reversed(_, _)
\* the parts are joined last first
join_reversed(sep, parts) ==
    IF Len(parts) = 0 THEN << >>
    ELSE IF Len(parts) = 1 THEN parts[1]
    ELSE join_reversed(sep, Tail(parts)) \o sep \o parts[1]

RECURSIVE join(_, _)
\* sep.join(parts)
join(sep, parts) ==
    IF Len(parts) = 0 THEN << >>
    ELSE IF Len(parts) = 1 THEN parts[1]
    ELSE parts[1] \o sep \o join(sep, Tail(parts))

Last(s) == s[Len(s)]

Contains(text, tok) == \E i \in 1..Len(text) : text[i] = tok

-----------------------------------------------------------------------------
(* Dicts: insertion-ordered sequences of <<key, value>> *)

DictHas(d, k) == \E i \in 1..Len(d) : d[i][1] = k

\* d[k] = v: a new key is appended, an existing key keeps its position
DictSet(d, k, v) ==
    IF DictHas(d, k)
    THEN [i \in 1..Len(d) |-> IF d[i][1] = k THEN <<k, v>> ELSE d[i]]
    ELSE Append(d, <<k, v>>)

DictKeys(d) == [i \in 1..Len(d) |-> d[i][1]]
DictValues(d) == [i \in 1..Len(d) |-> d[i][2]]
DictGet(d, k) == d[CHOOSE i \in 1..Len(d) : d[i][1] = k][2]

-----------------------------------------------------------------------------
(* AgentState *)

\* the keys AgentState declares; the graph has one channel per declared key
AgentState == {"messages", "current_step", "context", "research_summary",
               "final_answer", "agent_outputs"}

\* the keys the agents assign that AgentState does not declare
UndeclaredKeys == {"query", "analysis", "draft", "feedback", "final_response"}

END == "__end__"

\* a state dict: has is the set of keys present, a key not present holds a
\* placeholder of its type (agent_outputs holds the identity of a dict object)
EmptyState ==
    [has |-> {}, messages |-> << >>, current_step |-> "", context |-> << >>,
     research_summary |-> << >>, final_answer |-> << >>, agent_outputs |-> 0,
     query |-> << >>, analysis |-> << >>, draft |-> << >>, feedback |-> << >>,
     final_response |-> << >>]

\* s[k] = v
Put(s, k, v) == [s EXCEPT ![k] = v, !.has = @ \cup {k}]

\* k in s
Has(s, k) == k \in s.has

\* s.get(k, default)
Get(s, k, default) == IF k \in s.has THEN s[k] ELSE default

\* the keys of a node's returned dict that are written to channels
OutputKeys == AgentState

\* the channel values after a node (or the graph's input) wrote out: only
\* declared keys have a channel, every other key of out is dropped
WriteChannels(c, out) ==
    [k \in DOMAIN c |->
        IF k = "has" THEN c.has \cup (out.has \cap OutputKeys)
        ELSE IF k \in out.has /\ k \in OutputKeys THEN out[k]
        ELSE c[k]]

\* the dict a node is handed: a fresh dict of the channels that hold a value
ReadChannels(c) == c

-----------------------------------------------------------------------------
(* The graph *)

Nodes == {"retriever", "researcher", "writer", "critic"}
Edges == {<<"retriever", "researcher">>, <<"researcher", "writer">>,
          <<"writer", "critic">>}
EntryPoint == "retriever"

\* the edges of writer and researcher exchanged
AfterNodeMiswired(n) ==
    IF n = "retriever" THEN "writer"
    ELSE IF n = "writer" THEN "researcher"
    ELSE IF n = "researcher" THEN "critic"
    ELSE "finished"

\* writer has no outgoing edge: the run ends before critic
AfterNodeWithoutCritic(n) ==
    IF n = "retriever" THEN "researcher"
    ELSE IF n = "researcher" THEN "writer"
    ELSE "finished"

\* the position after node n returned: the node its edge leads to, and the end
\* of the run for a node without an outgoing edge
AfterNode(n) ==
    IF \E m \in Nodes : <<n, m>> \in Edges
    THEN CHOOSE m \in Nodes : <<n, m>> \in Edges
    ELSE "finished"

\* the exception is swallowed and the run goes on with the next node
AfterRaiseContinue(n) == AfterNode(n)

\* the failed node is scheduled again
AfterRaiseRetry(n) == n

\* the position after a collaborator call of a node raised: the exception
\* leaves the node and chain.invoke, no further node is scheduled
AfterRaise(n) == "raised"

-----------------------------------------------------------------------------
(* Collaborators *)

\* the k of similarity_search
K == 3

Min(a, b) == IF a < b THEN a ELSE b

Injections(n, m) == {s \in [1..n -> 1..m] : \A i, j \in 1..n : i # j => s[i] # s[j]}

\* vectorstore.similarity_search(query, k): the min(k, count) best chunks, best
\* first; which chunks rank best is the collection's business
similarity_search(store, query, k) ==
    {[i \in 1..Min(k, Len(store)) |-> store[s[i]]] :
        s \in Injections(Min(k, Len(store)), Len(store))}

-----------------------------------------------------------------------------
(* Prompts and rendered fragments *)

AnalysisPrompt(query, context) ==
    <<"Analyze this query and context", "Query:">> \o query \o <<"Context:">> \o context

DraftPrompt(query, context, analysis) ==
    <<"Draft a comprehensive response", "Query:">> \o query \o <<"Context:">> \o context
        \o <<"Analysis:">> \o analysis

FeedbackPrompt(query, context, analysis, draft) ==
    <<"Review this draft response", "Query:">> \o query \o <<"Context:">> \o context
        \o <<"Analysis:">> \o analysis \o <<"Draft:">> \o draft \o <<"Provide feedback on:">>

FinalPrompt(query, draft, feedback) ==
    <<"Create a final polished response", "Original Query:">> \o query \o <<"Draft:">> \o draft
        \o <<"Feedback:">> \o feedback \o <<"Requirements:">>

RetrieverFragment(docs, context) ==
    <<"<details open>", "Retrieved Documents", "Found", ToString(Len(docs)),
      "relevant documents.", "[code]">> \o context \o <<"[/code]", "</details>">>

ResearchFragment(analysis, query) ==
    <<"<details open>", "Research Analysis">> \o analysis \o <<"- Query:">> \o query
        \o <<"- Context Analysis: Present", "</details>">>

WriterFragment(draft) ==
    <<"<details open>", "Initial Draft">> \o draft \o <<"Writing Process", "</details>">>

CriticFragment(feedback) ==
    <<"<details open>", "Review & Refinement", "Feedback Summary">> \o feedback
        \o <<"Review Process", "</details>">>

ResponseFragment(final) ==
    <<"<details open>", "Final Response">> \o final \o <<"---", "</details>">>

-----------------------------------------------------------------------------
(* Executions *)

EmptyFrame == [query |-> << >>, context |-> << >>, analysis |-> << >>,
               draft |-> << >>, feedback |-> << >>]

NoReply == [status |-> -1, body |-> << >>]

\* one dict object shared by every execution
NewDictShared(e) == CHOOSE d \in Execs : \A other \in Execs : d <= other

\* the identity of the dict an empty dict literal evaluated by execution e
\* creates: a new object at every evaluation
NewDict(e) == e

\* the test query of main.py's __main__ block
test_query == <<"What is the latest document in store?">>

PipelineInit ==
    /\ heap = [d \in Execs |-> << >>]
    /\ channels = [e \in Execs |-> EmptyState]
    /\ state = [e \in Execs |-> EmptyState]
    /\ frame = [e \in Execs |-> EmptyFrame]
    /\ pc = [e \in Execs |-> "idle"]
    /\ entry = [e \in Execs |-> "none"]
    /\ started = [e \in Execs |-> << >>]
    /\ calls = [e \in Execs |-> << >>]
    /\ writes = [e \in Execs |-> << >>]
    /\ raised = [e \in Execs |-> "none"]
    /\ reply = [e \in Execs |-> NoReply]

\* api.py: POST /query builds the message and invokes the chain with an input
\* that holds the messages only
query_knowledge_base(e, q) ==
    /\ pc[e] = "idle"
    /\ entry' = [entry EXCEPT ![e] = "api"]
    /\ channels' = [channels EXCEPT
            ![e] = WriteChannels(EmptyState, Put(EmptyState, "messages", <<q>>))]
    /\ pc' = [pc EXCEPT ![e] = EntryPoint]
    /\ UNCHANGED <<vectorstore, heap, state, frame, started, calls, writes, raised, reply>>

\* main.py __main__: invokes the chain with every declared key set
main(e) ==
    /\ pc[e] = "idle"
    /\ entry' = [entry EXCEPT ![e] = "main"]
    /\ heap' = [heap EXCEPT ![NewDict(e)] = << >>]
    /\ LET input == Put(Put(Put(Put(Put(Put(EmptyState,
                        "messages", <<test_query>>),
                        "current_step", "retriever"),
                        "context", << >>),
                        "research_summary", << >>),
                        "final_answer", << >>),
                        "agent_outputs", NewDict(e))
       IN channels' = [channels EXCEPT ![e] = WriteChannels(EmptyState, input)]
    /\ pc' = [pc EXCEPT ![e] = EntryPoint]
    /\ UNCHANGED <<vectorstore, state, frame, started, calls, writes, raised, reply>>

\* the assignments of node to the keys of assigned, in their order
Assignments(node, assigned) ==
    [i \in 1..Len(assigned) |-> [node |-> node, key |-> assigned[i]]]

\* the assignment the query fallback of researcher_agent, writer_agent and
\* critic_agent executes when the dict s it is handed holds no query or an
\* empty one
QueryWrites(node, s) ==
    IF Has(s, "query") /\ s.query # << >> THEN << >> ELSE Assignments(node, <<"query">>)

\* a node begins: it is handed a fresh dict of the channel values (and prints
\* it as its input state), runs to its first collaborator call with dict s and
\* locals f, and issues the call
Begin(e, node, s, f, call) ==
    /\ started' = [started EXCEPT ![e] =
                        Append(@, [node |-> node, input |-> ReadChannels(channels[e])])]
    /\ state' = [state EXCEPT ![e] = s]
    /\ frame' = [frame EXCEPT ![e] = f]
    /\ calls' = [calls EXCEPT ![e] = Append(@, call)]
    /\ writes' = [writes EXCEPT ![e] =
                        @ \o (IF node = EntryPoint THEN << >>
                              ELSE QueryWrites(node, ReadChannels(channels[e])))]

\* a node returned its dict: the declared keys are written to the channels and
\* the node the edge leads to is scheduled
Return(e, node, out, assigned) ==
    /\ writes' = [writes EXCEPT ![e] = @ \o Assignments(node, assigned)]
    /\ state' = [state EXCEPT ![e] = out]
    /\ channels' = [channels EXCEPT ![e] = WriteChannels(@, out)]
    /\ pc' = [pc EXCEPT ![e] = AfterNode(node)]

\* an exception left a node: nothing is written to the channels
Raise(e, node, err) ==
    /\ raised' = [raised EXCEPT ![e] = err]
    /\ pc' = [pc EXCEPT ![e] = AfterRaise(node)]

\* the record of a collaborator call: what was asked and, once it returned, what
\* came back
SearchCall(query) ==
    [fn |-> "similarity_search", purpose |-> "search", arg |-> query, k |-> K,
     returned |-> FALSE, result |-> << >>]
LLMCall(purpose, prompt) ==
    [fn |-> "llm.invoke", purpose |-> purpose, arg |-> prompt,
     returned |-> FALSE, result |-> << >>]
Returned(log, result) ==
    [log EXCEPT ![Len(log)].returned = TRUE, ![Len(log)].result = result]

\* query = state.get("query"); if not query: query = messages[-1].content;
\* state["query"] = query
QueryOf(s) ==
    IF Has(s, "query") /\ s.query # << >> THEN s.query ELSE Last(s.messages)
WithQuery(s) ==
    IF Has(s, "query") /\ s.query # << >> THEN s ELSE Put(s, "query", Last(s.messages))

(* retriever_agent *)

\* lines 52-60: read the query and issue the search
retriever_agent_begin(e) ==
    /\ pc[e] = "retriever"
    /\ LET s == ReadChannels(channels[e])
           query == Last(s.messages)
       IN Begin(e, "retriever", s, [EmptyFrame EXCEPT !.query = query], SearchCall(query))
    /\ pc' = [pc EXCEPT ![e] = "retriever:search"]
    /\ UNCHANGED <<vectorstore, heap, channels, entry, raised, reply>>

\* the first passage is read without a check: no passage raises IndexError
retriever_agent_return_first(e, docs) ==
    /\ pc[e] = "retriever:search"
    /\ calls' = [calls EXCEPT ![e] = Returned(@, docs)]
    /\ IF docs = << >>
       THEN /\ Raise(e, "retriever", "IndexError")
            /\ UNCHANGED <<heap, channels, state, frame, writes>>
       ELSE LET query == frame[e].query
                context == join(<<"\n\n">>, [i \in 1..Len(docs) |-> docs[i].page_content])
                fresh == ~Has(state[e], "agent_outputs")
                s1 == IF fresh THEN Put(state[e], "agent_outputs", NewDict(e)) ELSE state[e]
                h1 == IF fresh THEN [heap EXCEPT ![NewDict(e)] = << >>] ELSE heap
                s2 == Put(Put(Put(s1, "current_step", "researcher"),
                              "context", context), "query", query)
            IN /\ frame' = [frame EXCEPT ![e].context = context]
               /\ heap' = [h1 EXCEPT ![s2.agent_outputs] =
                                DictSet(@, "retriever", RetrieverFragment(docs, context))]
               /\ Return(e, "retriever", s2,
                         (IF fresh THEN <<"agent_outputs">> ELSE << >>)
                            \o <<"current_step", "context", "query", "agent_outputs.retriever">>)
               /\ UNCHANGED raised
    /\ UNCHANGED <<vectorstore, entry, started, reply>>

\* lines 60-95: the search returned docs
retriever_agent_return(e, docs) ==
    /\ pc[e] = "retriever:search"
    /\ LET query == frame[e].query
           context == join(<<"\n\n">>, [i \in 1..Len(docs) |-> docs[i].page_content])
           fresh == ~Has(state[e], "agent_outputs")
           s1 == IF fresh THEN Put(state[e], "agent_outputs", NewDict(e)) ELSE state[e]
           h1 == IF fresh THEN [heap EXCEPT ![NewDict(e)] = << >>] ELSE heap
           s2 == Put(Put(Put(s1, "current_step", "researcher"),
                         "context", context), "query", query)
           d == s2.agent_outputs
       IN /\ frame' = [frame EXCEPT ![e].context = context]
          /\ heap' = [h1 EXCEPT ![d] = DictSet(@, "retriever", RetrieverFragment(docs, context))]
          /\ Return(e, "retriever", s2,
                    (IF fresh THEN <<"agent_outputs">> ELSE << >>)
                        \o <<"current_step", "context", "query", "agent_outputs.retriever">>)
    /\ calls' = [calls EXCEPT ![e] = Returned(@, docs)]
    /\ UNCHANGED <<vectorstore, entry, started, raised, reply>>

\* line 60: the search raised
retriever_agent_raise(e, err) ==
    /\ pc[e] = "retriever:search"
    /\ Raise(e, "retriever", err)
    /\ UNCHANGED <<vectorstore, heap, channels, state, frame, entry, started, calls, writes, reply>>

(* researcher_agent *)

\* lines 99-112: read query and context and issue the analysis call
researcher_agent_begin(e) ==
    /\ pc[e] = "researcher"
    /\ LET s == ReadChannels(channels[e])
           query == QueryOf(s)
           context == Get(s, "context", << >>)
       IN Begin(e, "researcher", WithQuery(s),
                [EmptyFrame EXCEPT !.query = query, !.context = context],
                LLMCall("analysis", AnalysisPrompt(query, context)))
    /\ pc' = [pc EXCEPT ![e] = "researcher:analysis"]
    /\ UNCHANGED <<vectorstore, heap, channels, entry, raised, reply>>

\* lines 110-142: the analysis call returned
researcher_agent_return(e, analysis) ==
    /\ pc[e] = "researcher:analysis"
    /\ Has(state[e], "agent_outputs")
    /\ LET s == Put(Put(state[e], "current_step", "writer"), "analysis", analysis)
       IN /\ frame' = [frame EXCEPT ![e].analysis = analysis]
          /\ heap' = [heap EXCEPT ![s.agent_outputs] =
                        DictSet(@, "research", ResearchFragment(analysis, frame[e].query))]
          /\ Return(e, "researcher", s,
                    <<"current_step", "analysis", "agent_outputs.research">>)
    /\ calls' = [calls EXCEPT ![e] = Returned(@, analysis)]
    /\ UNCHANGED <<vectorstore, entry, started, raised, reply>>

(* writer_agent *)

\* lines 146-160: read query, context and analysis and issue the draft call
writer_agent_begin(e) ==
    /\ pc[e] = "writer"
    /\ LET s == ReadChannels(channels[e])
           query == QueryOf(s)
           context == Get(s, "context", << >>)
           analysis == Get(s, "analysis", << >>)
       IN Begin(e, "writer", WithQuery(s),
                [EmptyFrame EXCEPT !.query = query, !.context = context,
                                   !.analysis = analysis],
                LLMCall("draft", DraftPrompt(query, context, analysis)))
    /\ pc' = [pc EXCEPT ![e] = "writer:draft"]
    /\ UNCHANGED <<vectorstore, heap, channels, entry, raised, reply>>

\* lines 158-190: the draft call returned
writer_agent_return(e, draft) ==
    /\ pc[e] = "writer:draft"
    /\ Has(state[e], "agent_outputs")
    /\ LET s == Put(Put(state[e], "current_step", "critic"), "draft", draft)
       IN /\ frame' = [frame EXCEPT ![e].draft = draft]
          /\ heap' = [heap EXCEPT ![s.agent_outputs] =
                        DictSet(@, "writer", WriterFragment(draft))]
          /\ Return(e, "writer", s, <<"current_step", "draft", "agent_outputs.writer">>)
    /\ calls' = [calls EXCEPT ![e] = Returned(@, draft)]
    /\ UNCHANGED <<vectorstore, entry, started, raised, reply>>

(* critic_agent *)

\* the finalization call is issued first, before there is any feedback
critic_agent_begin_final_first(e) ==
    /\ pc[e] = "critic"
    /\ LET s == ReadChannels(channels[e])
           query == QueryOf(s)
           draft == Get(s, "draft", << >>)
       IN Begin(e, "critic", WithQuery(s),
                [EmptyFrame EXCEPT !.query = query, !.draft = draft],
                LLMCall("final", FinalPrompt(query, draft, << >>)))
    /\ pc' = [pc EXCEPT ![e] = "critic:feedback"]
    /\ UNCHANGED <<vectorstore, heap, channels, entry, raised, reply>>

\* lines 194-220: read query, draft, context and analysis and issue the
\* feedback call
critic_agent_begin(e) ==
    /\ pc[e] = "critic"
    /\ LET s == ReadChannels(channels[e])
           query == QueryOf(s)
           draft == Get(s, "draft", << >>)
           context == Get(s, "context", << >>)
           analysis == Get(s, "analysis", << >>)
       IN Begin(e, "critic", WithQuery(s),
                [EmptyFrame EXCEPT !.query = query, !.context = context,
                                   !.analysis = analysis, !.draft = draft],
                LLMCall("feedback", FeedbackPrompt(query, context, analysis, draft)))
    /\ pc' = [pc EXCEPT ![e] = "critic:feedback"]
    /\ UNCHANGED <<vectorstore, heap, channels, entry, raised, reply>>

\* lines 207-235: the feedback call returned, issue the finalization call
critic_agent_feedback(e, feedback) ==
    /\ pc[e] = "critic:feedback"
    /\ frame' = [frame EXCEPT ![e].feedback = feedback]
    /\ calls' = [calls EXCEPT ![e] =
            Append(Returned(@, feedback),
                   LLMCall("final", FinalPrompt(frame[e].query, frame[e].draft, feedback)))]
    /\ pc' = [pc EXCEPT ![e] = "critic:final"]
    /\ UNCHANGED <<vectorstore, heap, channels, state, entry, started, writes, raised, reply>>

\* lines 223-282: the finalization call returned
critic_agent_return(e, final) ==
    /\ pc[e] = "critic:final"
    /\ Has(state[e], "agent_outputs")
    /\ LET feedback == frame[e].feedback
           s == Put(Put(Put(state[e], "current_step", END), "feedback", feedback),
                    "final_response", final)
       IN /\ heap' = [heap EXCEPT ![s.agent_outputs] =
                        DictSet(DictSet(@, "critic", CriticFragment(feedback)),
                                "response", ResponseFragment(final))]
          /\ Return(e, "critic", s,
                    <<"current_step", "feedback", "final_response", "agent_outputs.critic",
                      "agent_outputs.response">>)
    /\ calls' = [calls EXCEPT ![e] = Returned(@, final)]
    /\ UNCHANGED <<vectorstore, frame, entry, started, raised, reply>>

\* an inference call of researcher_agent, writer_agent or critic_agent raised
llm_raise(e, err) ==
    /\ pc[e] \in {"researcher:analysis", "writer:draft", "critic:feedback", "critic:final"}
    /\ Raise(e, Last(started[e]).node, err)
    /\ UNCHANGED <<vectorstore, heap, channels, state, frame, entry, started, calls, writes, reply>>

(* The callers *)

\* api.py lines 59-68: the chain returned; the fragments are joined by newlines
query_knowledge_base_return(e) ==
    /\ pc[e] = "finished"
    /\ entry[e] = "api"
    /\ LET result == channels[e]
           agent_outputs == IF Has(result, "agent_outputs")
                            THEN heap[result.agent_outputs] ELSE << >>
       IN reply' = [reply EXCEPT ![e] =
                        [status |-> 200, body |-> join(<<"\n">>, DictValues(agent_outputs))]]
    /\ pc' = [pc EXCEPT ![e] = "replied"]
    /\ UNCHANGED <<vectorstore, heap, channels, state, frame, entry, started, calls, writes, raised>>

\* the exception is caught and whatever fragments exist are returned as a success
query_knowledge_base_swallow(e) ==
    /\ pc[e] = "raised"
    /\ entry[e] = "api"
    /\ LET result == channels[e]
           agent_outputs == IF Has(result, "agent_outputs")
                            THEN heap[result.agent_outputs] ELSE << >>
       IN reply' = [reply EXCEPT ![e] =
                        [status |-> 200, body |-> join(<<"\n">>, DictValues(agent_outputs))]]
    /\ pc' = [pc EXCEPT ![e] = "replied"]
    /\ UNCHANGED <<vectorstore, heap, channels, state, frame, entry, started, calls, writes, raised>>

\* api.py lines 70-74: the chain raised; HTTP 500 with the exception's text
query_knowledge_base_except(e) ==
    /\ pc[e] = "raised"
    /\ entry[e] = "api"
    /\ reply' = [reply EXCEPT ![e] =
                    [status |-> 500, body |-> <<"Error processing query:", raised[e]>>]]
    /\ pc' = [pc EXCEPT ![e] = "replied"]
    /\ UNCHANGED <<vectorstore, heap, channels, state, frame, entry, started, calls, writes, raised>>

\* main.py lines 317-318: the chain returned; the fragments are printed
main_return(e) ==
    /\ pc[e] = "finished"
    /\ entry[e] = "main"
    /\ LET agent_outputs == heap[channels[e].agent_outputs]
       IN reply' = [reply EXCEPT ![e] =
                [status |-> 0,
                 body |-> join(<<",">>, [i \in 1..Len(agent_outputs) |->
                            <<agent_outputs[i][1], ":">> \o agent_outputs[i][2]])]]
    /\ pc' = [pc EXCEPT ![e] = "replied"]
    /\ UNCHANGED <<vectorstore, heap, channels, state, frame, entry, started, calls, writes, raised>>

\* main.py line 308: the chain raised and nothing catches it; the process ends
\* with a traceback
main_except(e) ==
    /\ pc[e] = "raised"
    /\ entry[e] = "main"
    /\ reply' = [reply EXCEPT ![e] = [status |-> 1, body |-> <<"Traceback", raised[e]>>]]
    /\ pc' = [pc EXCEPT ![e] = "replied"]
    /\ UNCHANGED <<vectorstore, heap, channels, state, frame, entry, started, calls, writes, raised>>

-----------------------------------------------------------------------------
(* Specifications of the pipeline *)

\* the graph runs the nodes; the inference provider answers with one of outputs
RunStep(e, outputs) ==
    \/ retriever_agent_begin(e)
    \/ \E docs \in similarity_search(vectorstore, frame[e].query, K) :
            retriever_agent_return(e, docs)
    \/ \E err \in IndexErrors : retriever_agent_raise(e, err)
    \/ researcher_agent_begin(e)
    \/ \E r \in outputs : researcher_agent_return(e, r)
    \/ writer_agent_begin(e)
    \/ \E r \in outputs : writer_agent_return(e, r)
    \/ critic_agent_begin(e)
    \/ \E r \in outputs : critic_agent_feedback(e, r)
    \/ \E r \in outputs : critic_agent_return(e, r)
    \/ \E err \in LLMErrors : llm_raise(e, err)

\* a request to POST /query
ApiStep(e, outputs) ==
    \/ \E q \in Queries : query_knowledge_base(e, q)
    \/ RunStep(e, outputs)
    \/ query_knowledge_base_return(e)
    \/ query_knowledge_base_except(e)

\* a run of main.py as a script
MainStep(e) ==
    \/ main(e)
    \/ main_return(e)
    \/ main_except(e)

\* one execution, over a collection of up to MaxDocs chunks
ProcessorIdle ==
    /\ fs = {}
    /\ dpc = "idle"
    /\ job = [directory_path |-> << >>, document_type |-> "", ext |-> 0, files |-> {},
              stats |-> [total |-> 0, successful |-> 0, failed |-> 0]]
    /\ docLog = << >>
    /\ opLog = << >>

Init ==
    /\ \E n \in 0..MaxDocs : vectorstore = SubSeq(Corpus, 1, n)
    /\ PipelineInit
    /\ ProcessorIdle

Next ==
    /\ \E e \in FirstExec : ApiStep(e, LLMOutputs) \/ MainStep(e)
    /\ UNCHANGED processorVars

Spec == Init /\ [][Next]_vars

\* the steps of a run in which every index and inference call returns
SuccessStep(e) ==
    \/ retriever_agent_begin(e)
    \/ \E docs \in similarity_search(vectorstore, frame[e].query, K) :
            retriever_agent_return(e, docs)
    \/ researcher_agent_begin(e)
    \/ \E r \in LLMOutputs : researcher_agent_return(e, r)
    \/ writer_agent_begin(e)
    \/ \E r \in LLMOutputs : writer_agent_return(e, r)
    \/ critic_agent_begin(e)
    \/ \E r \in LLMOutputs : critic_agent_feedback(e, r)
    \/ \E r \in LLMOutputs : critic_agent_return(e, r)

\* the steps of the chain once invoked, together with what they leave alone
ChainRuns == (\E e \in FirstExec : SuccessStep(e)) /\ UNCHANGED processorVars

NextSuccess ==
    /\ \E e \in FirstExec :
            \/ \E q \in Queries : query_knowledge_base(e, q)
            \/ main(e)
            \/ SuccessStep(e)
            \/ query_knowledge_base_return(e)
            \/ main_return(e)
    /\ UNCHANGED processorVars

\* one execution whose collaborators always return; chain.invoke is a
\* synchronous call, so a run that was invoked keeps taking its steps
SpecSuccess == Init /\ [][NextSuccess]_vars /\ WF_vars(ChainRuns)

\* what the inference provider answers to execution e, when the answers are
\* told apart by the request they answer
AnswersTo(e) == {<<"answer to", ToString(e)>>}

\* two requests to POST /query in flight, over a shared collection of up to
\* MaxDocsShared chunks; their steps interleave at every collaborator call
InitConcurrent ==
    /\ \E n \in 0..MaxDocsShared : vectorstore = SubSeq(Corpus, 1, n)
    /\ PipelineInit
    /\ ProcessorIdle

NextConcurrent ==
    /\ \E e \in Execs : ApiStep(e, AnswersTo(e))
    /\ UNCHANGED processorVars

SpecConcurrent == InitConcurrent /\ [][NextConcurrent]_vars

-----------------------------------------------------------------------------
(* Properties of the pipeline *)

IsPrefix(a, b) == Len(a) <= Len(b) /\ \A i \in 1..Len(a) : a[i] = b[i]

NoDuplicates(seq) == \A i, j \in 1..Len(seq) : i # j => seq[i] # seq[j]

StageKeys == <<"retriever", "research", "writer", "critic", "response">>
NodeOrder == <<"retriever", "researcher", "writer", "critic">>

\* the agent_outputs dict of execution e, as the graph holds it
Outputs(e) ==
    IF Has(channels[e], "agent_outputs") THEN heap[channels[e].agent_outputs] ELSE << >>

StartedNodes(e) == [i \in 1..Len(started[e]) |-> started[e][i].node]

\* the query execution e was invoked with
QueryIn(e) == Last(channels[e].messages)

Succeeded(e) == pc[e] \in {"finished", "replied"} /\ raised[e] = "none"
Failed(e) == raised[e] # "none"

\* the collaborator call of execution e made for `purpose` returned
HasResult(e, purpose) ==
    \E i \in 1..Len(calls[e]) : calls[e][i].purpose = purpose /\ calls[e][i].returned
ResultOf(e, purpose) ==
    calls[e][CHOOSE i \in 1..Len(calls[e]) : calls[e][i].purpose = purpose].result

\* the node that issues the call made for `purpose`
NodeOfCall(purpose) ==
    IF purpose = "search" THEN "retriever"
    ELSE IF purpose = "analysis" THEN "researcher"
    ELSE IF purpose = "draft" THEN "writer"
    ELSE "critic"

\* the node whose collaborator call failed
FailedNode(e) == NodeOfCall(Last(calls[e]).purpose)

ContextOf(e) ==
    LET docs == ResultOf(e, "search")
    IN join(<<"\n\n">>, [i \in 1..Len(docs) |-> docs[i].page_content])

\* the fragment stored under `key`, rendered from what execution e itself was
\* given and received
OwnFragment(e, key) ==
    IF key = "retriever" THEN RetrieverFragment(ResultOf(e, "search"), ContextOf(e))
    ELSE IF key = "research" THEN ResearchFragment(ResultOf(e, "analysis"), QueryIn(e))
    ELSE IF key = "writer" THEN WriterFragment(ResultOf(e, "draft"))
    ELSE IF key = "critic" THEN CriticFragment(ResultOf(e, "feedback"))
    ELSE ResponseFragment(ResultOf(e, "final"))

OwnResponse(e) == join(<<"\n">>, [i \in 1..Len(StageKeys) |-> OwnFragment(e, StageKeys[i])])

\* C1: the keys of agent_outputs are at every point of a run a prefix of
\* retriever, research, writer, critic, response, and after a successful run
\* they are exactly that sequence.
C1_StageOutputsOrder ==
    \A e \in Execs :
        /\ IsPrefix(DictKeys(Outputs(e)), StageKeys)
        /\ Succeeded(e) => DictKeys(Outputs(e)) = StageKeys

C1_Witness ==
    \E e \in Execs : pc[e] = "finished" /\ DictKeys(Outputs(e)) = StageKeys

\* C2 as stated: a failure of the inference provider in researcher_agent is
\* returned to the caller as an error that names the stage, and nothing of the
\* later stages exists.
NamesStage(body, node) ==
    \/ Contains(body, node)
    \/ node = "researcher" /\ (Contains(body, "Analysis") \/ Contains(body, "researcher_agent"))

LaterStagesEmpty(e) ==
    /\ \A k \in {"draft", "feedback", "final_response"} :
            ~Has(channels[e], k) /\ ~Has(state[e], k)
    /\ \A k \in {"writer", "critic", "response"} : ~DictHas(Outputs(e), k)

C3_SuccessOnlyWhenComplete ==
    \A e \in Execs :
        (pc[e] = "replied" /\ entry[e] = "api") =>
            /\ reply[e].status \in {200, 500}
            /\ Failed(e) => reply[e].status = 500
            /\ reply[e].status = 200 =>
                    /\ ~Failed(e)
                    /\ StartedNodes(e) = NodeOrder
                    /\ Len(calls[e]) = 5
                    /\ \A i \in 1..Len(calls[e]) : calls[e][i].returned
                    /\ DictKeys(Outputs(e)) = StageKeys
                    /\ reply[e].body = OwnResponse(e)

C3_Witness ==
    \E e \in Execs : pc[e] = "replied" /\ entry[e] = "api" /\ reply[e].status = 200

C3_WitnessFailure ==
    \E e \in Execs : pc[e] = "replied" /\ entry[e] = "api" /\ reply[e].status = 500

\* C4: when a collaborator call of a node fails, current_step keeps the value
\* the node was handed, no later node is begun, and the node is not begun again.
C4_FailureHalts ==
    \A e \in Execs :
        Failed(e) =>
            LET S == Last(started[e])
            IN /\ S.node = FailedNode(e)
               /\ ~Last(calls[e]).returned
               /\ Has(channels[e], "current_step") = Has(S.input, "current_step")
               /\ channels[e].current_step = S.input.current_step
               /\ state[e].current_step = S.input.current_step
               /\ pc[e] \in {"raised", "replied"}
               /\ IsPrefix(StartedNodes(e), NodeOrder)
               /\ NoDuplicates([i \in 1..Len(calls[e]) |-> calls[e][i].purpose])

C4_Witness ==
    \E e \in Execs : Failed(e) /\ FailedNode(e) = "critic" /\ pc[e] = "replied"

\* the node execution e is running, between its beginning and its return
Executing(e) ==
    IF pc[e] = "retriever:search" THEN "retriever"
    ELSE IF pc[e] = "researcher:analysis" THEN "researcher"
    ELSE IF pc[e] = "writer:draft" THEN "writer"
    ELSE IF pc[e] \in {"critic:feedback", "critic:final"} THEN "critic"
    ELSE "none"

StepRank(step) ==
    IF step = "retriever" THEN 1
    ELSE IF step = "researcher" THEN 2
    ELSE IF step = "writer" THEN 3
    ELSE IF step = "critic" THEN 4
    ELSE IF step = END THEN 5
    ELSE 0

\* C5 as stated: current_step advances along retriever, researcher, writer,
\* critic, END one step at a time, and the node that is executing is the one
\* current_step names: the i-th node begun is handed a state whose
\* current_step names the i-th stage, and it still names it while the node runs.
C5_CurrentStepNamesRunningStage ==
    \A e \in Execs :
        /\ \A i \in 1..Len(started[e]) :
                /\ Has(started[e][i].input, "current_step")
                /\ started[e][i].input.current_step = started[e][i].node
                /\ StepRank(started[e][i].input.current_step) = i
        /\ Executing(e) # "none" =>
                /\ Has(channels[e], "current_step")
                /\ channels[e].current_step = Executing(e)
        /\ Succeeded(e) => channels[e].current_step = END

\* What does hold of current_step: once a node has returned, current_step is
\* set and names the position of the run, so it advances one stage at a time;
\* it is unset only before the first node of a POST /query run returned.
C5_CurrentStepAfterFirstNode ==
    \A e \in Execs :
        /\ \A i \in 1..Len(started[e]) :
                (i > 1 \/ entry[e] = "main") =>
                    /\ Has(started[e][i].input, "current_step")
                    /\ started[e][i].input.current_step = started[e][i].node
                    /\ StepRank(started[e][i].input.current_step) = i
        /\ (Executing(e) # "none" /\ (Executing(e) # "retriever" \/ entry[e] = "main")) =>
                /\ Has(channels[e], "current_step")
                /\ channels[e].current_step = Executing(e)
        /\ (Executing(e) = "retriever" /\ entry[e] = "api") => ~Has(channels[e], "current_step")
        /\ Succeeded(e) => channels[e].current_step = END

\* the search of execution e returned no passage
ZeroPassages(e) == HasResult(e, "search") /\ ResultOf(e, "search") = << >>

\* C6: when the search returns no passage the retriever does not fail, context
\* is the empty string and the retriever fragment reports 0 documents; the run
\* goes on through researcher, writer and critic, and when it ends current_step
\* is END, the state critic_agent returned holds the finalization call's output
\* as final_response, and the response fragment renders that output.
C6_ZeroPassages ==
    \A e \in Execs :
        ZeroPassages(e) =>
            /\ ~(Failed(e) /\ FailedNode(e) = "retriever")
            /\ Has(channels[e], "context") /\ channels[e].context = << >>
            /\ DictGet(Outputs(e), "retriever") = RetrieverFragment(<< >>, << >>)
            /\ DictGet(Outputs(e), "retriever")[4] = "0"
            /\ \A i \in 1..Len(calls[e]) :
                    calls[e][i].purpose = "analysis" =>
                        calls[e][i].arg = AnalysisPrompt(QueryIn(e), << >>)
            /\ Succeeded(e) =>
                    /\ StartedNodes(e) = NodeOrder
                    /\ channels[e].current_step = END
                    /\ state[e].current_step = END
                    /\ Has(state[e], "final_response")
                    /\ state[e].final_response = ResultOf(e, "final")
                    /\ DictGet(Outputs(e), "response") = ResponseFragment(ResultOf(e, "final"))

C6_Witness ==
    \E e \in Execs : ZeroPassages(e) /\ Succeeded(e) /\ pc[e] = "replied"

\* C10: two requests in flight never share a state record or an agent_outputs
\* dict: every prompt an execution sends and every fragment it holds or returns
\* is built from its own query and from what its own calls returned.
OwnPrompt(e, purpose) ==
    LET q == QueryIn(e)
        ctx == ContextOf(e)
    IN  IF purpose = "search" THEN q
        ELSE IF purpose = "analysis" THEN AnalysisPrompt(q, ctx)
        ELSE IF purpose = "draft" THEN DraftPrompt(q, ctx, Get(channels[e], "analysis", << >>))
        ELSE IF purpose = "feedback"
            THEN FeedbackPrompt(q, ctx, Get(channels[e], "analysis", << >>),
                                Get(channels[e], "draft", << >>))
        ELSE FinalPrompt(q, Get(channels[e], "draft", << >>), ResultOf(e, "feedback"))

C10_ExecutionsIndependent ==
    /\ \A e1, e2 \in Execs :
            (e1 # e2 /\ Has(channels[e1], "agent_outputs") /\ Has(channels[e2], "agent_outputs"))
                => channels[e1].agent_outputs # channels[e2].agent_outputs
    /\ \A e \in Execs :
            /\ \A i \in 1..Len(calls[e]) : calls[e][i].arg = OwnPrompt(e, calls[e][i].purpose)
            /\ \A i \in 1..Len(Outputs(e)) :
                    Outputs(e)[i][2] = OwnFragment(e, Outputs(e)[i][1])
            /\ (pc[e] = "replied" /\ ~Failed(e)) => reply[e].body = OwnResponse(e)
            /\ pc[e] = "idle" => channels[e] = EmptyState /\ calls[e] = << >>

\* both executions are under way with different queries, and one has answered
C10_Witness ==
    \E e1, e2 \in Execs :
        /\ e1 # e2
        /\ pc[e1] = "replied" /\ reply[e1].status = 200
        /\ pc[e2] \in {"writer:draft", "critic:feedback"}
        /\ QueryIn(e1) # QueryIn(e2)

RECURSIVE Concat(_)
\* the texts of a sequence, one after the other
Concat(texts) == IF texts = << >> THEN << >> ELSE Head(texts) \o Concat(Tail(texts))

\* the passages of docs, in their order, with a blank line between every two
BlankLineSeparated(docs) ==
    Concat([i \in 1..(2 * Len(docs) - 1) |->
                IF i % 2 = 1 THEN docs[(i + 1) \div 2].page_content ELSE <<"\n\n">>])

SearchCalls(e) == {i \in 1..Len(calls[e]) : calls[e][i].purpose = "search"}

\* C11: retriever_agent issues one search, for the query of the last message
\* and with k = 3; once it returned, context is the texts of the returned
\* passages in the order the index returned them with a blank line between
\* every two, at most 3 passages are used and all of the collection when it
\* holds fewer than 3, and the count the retriever fragment renders is the
\* number of passages joined.
C11_RetrievalJoin ==
    \A e \in Execs :
        /\ Cardinality(SearchCalls(e)) <= 1
        /\ \A i \in SearchCalls(e) :
                i = 1 /\ calls[e][i].arg = QueryIn(e) /\ calls[e][i].k = 3
        /\ HasResult(e, "search") =>
                LET docs == ResultOf(e, "search")
                IN /\ Len(docs) <= 3
                   /\ Len(docs) = Min(3, Len(vectorstore))
                   /\ Has(channels[e], "context")
                   /\ channels[e].context = BlankLineSeparated(docs)
                   /\ DictGet(Outputs(e), "retriever") =
                            RetrieverFragment(docs, BlankLineSeparated(docs))
                   /\ DictGet(Outputs(e), "retriever")[4] = ToString(Len(docs))

\* the collection holds more than 3 chunks and the search returned 3 of them
C11_Witness ==
    \E e \in Execs :
        /\ HasResult(e, "search")
        /\ Len(vectorstore) > 3
        /\ Len(ResultOf(e, "search")) = 3
        /\ pc[e] = "researcher"

\* the collection holds 2 chunks and the search returned exactly those 2
C11_WitnessFewer ==
    \E e \in Execs :
        /\ HasResult(e, "search")
        /\ Len(vectorstore) = 2
        /\ Len(ResultOf(e, "search")) = 2

\* the keys that hold a stage's product, and the entries of agent_outputs
WriteOnceKeys ==
    {"query", "context", "analysis", "draft", "feedback", "final_response"}
        \cup {"agent_outputs." \o StageKeys[i] : i \in 1..Len(StageKeys)}

\* C13 as stated: in a run each of query, context, analysis, draft, feedback,
\* final_response and each entry of agent_outputs is assigned at most once, and
\* query is assigned by the first stage only, whatever the query.
C13_WriteOnce ==
    \A e \in Execs :
        /\ \A i, j \in 1..Len(writes[e]) :
                (i # j /\ writes[e][i].key \in WriteOnceKeys) =>
                    writes[e][i].key # writes[e][j].key
        /\ \A i \in 1..Len(writes[e]) :
                writes[e][i].key = "query" => writes[e][i].node = "retriever"

\* What does hold of the assignments: every key but query is assigned at most
\* once, by its own stage; query is assigned once by every stage that has
\* begun, and always the query of the last message.
C13_WriteOnceButQuery ==
    \A e \in Execs :
        /\ \A i, j \in 1..Len(writes[e]) :
                (i # j /\ writes[e][i].key \in WriteOnceKeys \ {"query"}) =>
                    writes[e][i].key # writes[e][j].key
        /\ \A i \in 2..Len(started[e]) :
                /\ ~Has(started[e][i].input, "query")
                /\ Cardinality({w \in 1..Len(writes[e]) :
                        writes[e][w] = [node |-> started[e][i].node, key |-> "query"]}) = 1
        /\ Has(state[e], "query") => state[e].query = QueryIn(e)

\* the prompt a call made for purpose would carry if every stage were handed
\* what the earlier stages of execution e produced
PromptFromEarlierStages(e, purpose) ==
    LET q == QueryIn(e)
        ctx == ContextOf(e)
    IN  IF purpose = "analysis" THEN AnalysisPrompt(q, ctx)
        ELSE IF purpose = "draft" THEN DraftPrompt(q, ctx, ResultOf(e, "analysis"))
        ELSE IF purpose = "feedback"
            THEN FeedbackPrompt(q, ctx, ResultOf(e, "analysis"), ResultOf(e, "draft"))
        ELSE FinalPrompt(q, ResultOf(e, "draft"), ResultOf(e, "feedback"))

InferenceCalls(e) == {i \in 1..Len(calls[e]) : calls[e][i].fn = "llm.invoke"}

\* C14 as stated: the analysis in writer_agent's prompt is what the analysis
\* call returned, the analysis and draft in critic_agent's feedback prompt are
\* what the analysis and draft calls returned, the finalization prompt holds
\* the feedback the feedback call returned, and no prompt holds an empty
\* default in place of a value an earlier stage produced.
C14_StagesConsumeEarlierProducts ==
    \A e \in Execs :
        \A i \in InferenceCalls(e) :
            calls[e][i].arg = PromptFromEarlierStages(e, calls[e][i].purpose)

\* What does hold of the prompts: query and context reach every stage, and
\* feedback reaches the finalization prompt as the local variable it is; the
\* analysis and the draft never reach a later stage, whose prompt holds the
\* empty default in their place.
C14_PromptsFromDeclaredKeys ==
    \A e \in Execs :
        \A i \in InferenceCalls(e) :
            LET q == QueryIn(e)
                ctx == ContextOf(e)
                purpose == calls[e][i].purpose
            IN calls[e][i].arg =
                    IF purpose = "analysis" THEN AnalysisPrompt(q, ctx)
                    ELSE IF purpose = "draft" THEN DraftPrompt(q, ctx, << >>)
                    ELSE IF purpose = "feedback" THEN FeedbackPrompt(q, ctx, << >>, << >>)
                    ELSE FinalPrompt(q, << >>, ResultOf(e, "feedback"))

\* execution e reached the end of the graph: current_step is END and each of
\* the four nodes was begun once, in the order of the edges
Done(e) ==
    /\ Has(channels[e], "current_step") /\ channels[e].current_step = END
    /\ StartedNodes(e) = NodeOrder
    /\ pc[e] \in {"finished", "replied"}

\* C15: when every index and inference call returns, a run that was invoked
\* eventually reaches current_step = END having begun each of the four nodes
\* exactly once, and from then on no node is begun and no call is issued.
C15_ReachesDone ==
    /\ \A e \in Execs : (pc[e] # "idle") ~> Done(e)
    /\ [][\A e \in Execs :
            Done(e) => /\ Done(e)'
                       /\ started'[e] = started[e]
                       /\ calls'[e] = calls[e]]_vars

C15_Witness ==
    \E e \in Execs : Done(e) /\ pc[e] = "finished" /\ Len(started[e]) = 4

Purposes(e) == [i \in 1..Len(calls[e]) |-> calls[e][i].purpose]
CallOrder == <<"search", "analysis", "draft", "feedback", "final">>

\* C16: the calls of a run are issued in the order search, analysis, draft,
\* feedback, finalization, each one only after the one before it returned; a
\* successful run made exactly these five calls: one search and four
\* inference calls.
C16_CallOrder ==
    \A e \in Execs :
        /\ IsPrefix(Purposes(e), CallOrder)
        /\ \A i \in 1..Len(calls[e]) :
                /\ i < Len(calls[e]) => calls[e][i].returned
                /\ calls[e][i].fn =
                        IF i = 1 THEN "similarity_search" ELSE "llm.invoke"
        /\ Succeeded(e) =>
                /\ Purposes(e) = CallOrder
                /\ \A i \in 1..Len(calls[e]) : calls[e][i].returned
                /\ Cardinality(SearchCalls(e)) = 1
                /\ Cardinality(InferenceCalls(e)) = 4

\* the finalization call is in flight, after the feedback call returned
C16_Witness ==
    \E e \in Execs :
        /\ pc[e] = "critic:final"
        /\ Len(calls[e]) = 5
        /\ calls[e][4].returned /\ ~calls[e][5].returned

C16_WitnessSuccess ==
    \E e \in Execs : Succeeded(e) /\ Purposes(e) = CallOrder

-----------------------------------------------------------------------------
(* processor.py: paths and file names *)

(* A file name is the sequence of its characters, a path the sequence of   *)
(* its names.                                                              *)

UpperCase == <<"A", "B", "C", "D", "E", "F", "G", "H", "I", "J", "K", "L", "M",
               "N", "O", "P", "Q", "R", "S", "T", "U", "V", "W", "X", "Y", "Z">>
LowerCase == <<"a", "b", "c", "d", "e", "f", "g", "h", "i", "j", "k", "l", "m",
               "n", "o", "p", "q", "r", "s", "t", "u", "v", "w", "x", "y", "z">>

\* str.lower()
lower(str) ==
    [i \in 1..Len(str) |->
        IF \E c \in 1..Len(UpperCase) : UpperCase[c] = str[i]
        THEN LowerCase[CHOOSE c \in 1..Len(UpperCase) : UpperCase[c] = str[i]]
        ELSE str[i]]

\* Path.name
name(path) == Last(path)

\* Path.suffix: the name from its last dot on, unless that dot is the first or
\* the last character of the name
suffix(path) ==
    LET n == name(path)
        dots == {i \in 1..Len(n) : n[i] = "."}
    IN  IF dots = {} THEN << >>
        ELSE LET i == CHOOSE d \in dots : \A other \in dots : other <= d
             IN IF 1 < i /\ i < Len(n) THEN SubSeq(n, i, Len(n)) ELSE << >>

EndsWith(str, tail) ==
    Len(tail) <= Len(str) /\ SubSeq(str, Len(str) - Len(tail) + 1, Len(str)) = tail

\* Path.exists(), Path.is_dir()
exists(path) == \E f \in fs : f.path = path
is_dir(path) == \E f \in fs : f.path = path /\ f.kind = "dir"

\* list(path.glob("**/*" + ext)): the entries below path, at any depth, whose
\* name ends with ext; the match is by character (a POSIX file system)
glob(path, ext) ==
    {f.path : f \in {g \in fs : /\ Len(g.path) > Len(path)
                               /\ SubSeq(g.path, 1, Len(path)) = path
                               /\ EndsWith(name(g.path), ext)}}

\* SUPPORTED_EXTENSIONS, in the order of the dict
SUPPORTED_EXTENSIONS == <<<<".", "p", "d", "f">>, <<".", "t", "x", "t">>, <<".", "m", "d">>>>
SupportedSet == {SUPPORTED_EXTENSIONS[i] : i \in 1..Len(SUPPORTED_EXTENSIONS)}

-----------------------------------------------------------------------------
(* processor.py: loading and splitting *)

chunk_size == 1000
chunk_overlap == 200

\* the characters str.strip() removes
Whitespace == {" ", "\n"}

\* the separators of RecursiveCharacterTextSplitter, in the order it tries them
separators == <<<<"\n", "\n">>, <<"\n">>, <<" ">>, << >>>>

(* A piece of a text is the span of positions it takes in the text: the      *)
(* splitter keeps every separator at the head of the piece that follows it   *)
(* and joins pieces with the empty string, so whatever it joins is a span.   *)
Span(from, to) == [from |-> from, to |-> to]
SpanLen(s) == s.to - s.from + 1

\* the positions between lo and hi where sep occurs
Matches(text, sep, lo, hi) ==
    {i \in lo..(hi - Len(sep) + 1) : SubSeq(text, i, i + Len(sep) - 1) = sep}

Least(S) == CHOOSE x \in S : \A y \in S : x <= y

RECURSIVE split_with_separator(_, _, _, _, _)
\* the split of text[start..hi] at the occurrences of sep found from search on,
\* left to right, each occurrence kept at the head of the next piece; empty
\* pieces are dropped
split_with_separator(text, sep, start, search, hi) ==
    LET M == Matches(text, sep, search, hi)
    IN  IF M = {}
        THEN IF start <= hi THEN <<Span(start, hi)>> ELSE << >>
        ELSE (IF start < Least(M) THEN <<Span(start, Least(M) - 1)>> ELSE << >>)
                \o split_with_separator(text, sep, Least(M), Least(M) + Len(sep), hi)

RECURSIVE SkipLeft(_, _, _)
SkipLeft(text, lo, hi) ==
    IF lo <= hi /\ text[lo] \in Whitespace THEN SkipLeft(text, lo + 1, hi) ELSE lo

RECURSIVE SkipRight(_, _, _)
SkipRight(text, lo, hi) ==
    IF lo <= hi /\ text[hi] \in Whitespace THEN SkipRight(text, lo, hi - 1) ELSE hi

\* str.strip(), on a span
strip(text, s) ==
    LET lo == SkipLeft(text, s.from, s.to)
    IN Span(lo, SkipRight(text, lo, s.to))

\* the pieces of current joined and stripped; nothing when that leaves nothing
join_docs(text, current) ==
    IF current = << >> THEN << >>
    ELSE LET s == strip(text, Span(current[1].from, Last(current).to))
         IN IF s.from > s.to THEN << >> ELSE <<s>>

\* the length of the pieces held
Total(current) == IF current = << >> THEN 0 ELSE Last(current).to - current[1].from + 1

RECURSIVE DropOverlap(_, _)
\* pieces are dropped from the head until no more than chunk_overlap is held
\* and the next piece, of length len, fits
DropOverlap(current, len) ==
    IF Total(current) > chunk_overlap
            \/ (Total(current) + len > chunk_size /\ Total(current) > 0)
    THEN DropOverlap(Tail(current), len)
    ELSE current

RECURSIVE merge_splits(_, _, _)
\* the pieces are gathered into chunks of at most chunk_size; what is kept
\* from one chunk to the next is at most chunk_overlap
merge_splits(text, splits, current) ==
    IF splits = << >> THEN join_docs(text, current)
    ELSE LET d == Head(splits)
         IN IF Total(current) + SpanLen(d) > chunk_size
            THEN join_docs(text, current)
                    \o merge_splits(text, Tail(splits),
                                    Append(DropOverlap(current, SpanLen(d)), d))
            ELSE merge_splits(text, Tail(splits), Append(current, d))

RECURSIVE Windows(_, _, _)
\* merge_splits over the single characters of text[lo..hi]: windows of
\* chunk_size, each beginning chunk_size - chunk_overlap after the one before
Windows(text, lo, hi) ==
    IF hi - lo + 1 <= chunk_size THEN join_docs(text, <<Span(lo, hi)>>)
    ELSE join_docs(text, <<Span(lo, lo + chunk_size - 1)>>)
            \o Windows(text, lo + chunk_size - chunk_overlap, hi)

\* the first separator, from level on, that is empty or occurs in text[lo..hi]
SeparatorAt(text, lo, hi, level) ==
    Least({j \in level..Len(separators) :
                separators[j] = << >> \/ Matches(text, separators[j], lo, hi) # {}})

RECURSIVE split_text_at(_, _, _, _)
RECURSIVE split_pieces(_, _, _, _)
\* text[lo..hi] is split at the first separator that applies; with the empty
\* separator it is split into its characters
split_text_at(text, lo, hi, level) ==
    LET j == SeparatorAt(text, lo, hi, level)
    IN  IF separators[j] = << >> THEN Windows(text, lo, hi)
        ELSE split_pieces(text, split_with_separator(text, separators[j], lo, lo, hi),
                          j + 1, << >>)

\* pieces shorter than chunk_size are gathered and merged; a longer one is
\* split again with the separators that remain
split_pieces(text, pieces, level, good) ==
    IF pieces = << >> THEN merge_splits(text, good, << >>)
    ELSE LET s == Head(pieces)
         IN IF SpanLen(s) < chunk_size
            THEN split_pieces(text, Tail(pieces), level, Append(good, s))
            ELSE merge_splits(text, good, << >>)
                    \o split_text_at(text, s.from, s.to, level)
                    \o split_pieces(text, Tail(pieces), level, << >>)

\* the spans of text that text_splitter.split_text returns as chunks
split_spans(text) == split_text_at(text, 1, Len(text), 1)

\* text_splitter.split_text
split_text(text) ==
    LET spans == split_spans(text)
    IN [k \in 1..Len(spans) |-> SubSeq(text, spans[k].from, spans[k].to)]

\* document_type or 'general'
TypeOf(document_type) == IF document_type = "" THEN "general" ELSE document_type

\* loader.load() raises for a file it cannot read
Loadable(path) == \E f \in fs : f.path = path /\ f.kind = "file" /\ f.readable

\* loader.load() and the metadata update of lines 51-57
load(path, document_type) ==
    LET f == CHOOSE g \in fs : g.path = path
    IN <<[page_content |-> f.text,
          metadata |-> [source |-> path, filename |-> name(path),
                        type |-> TypeOf(document_type)]]>>

RECURSIVE split_documents(_)
\* text_splitter.split_documents: the chunks of every document, each with the
\* metadata of its document
split_documents(documents) ==
    IF documents = << >> THEN << >>
    ELSE LET doc == Head(documents)
             texts == split_text(doc.page_content)
         IN [i \in 1..Len(texts) |-> [page_content |-> texts[i], metadata |-> doc.metadata]]
            \o split_documents(Tail(documents))

Outcome(ret, error, loader_calls, split_calls, add_calls, store) ==
    [ret |-> ret, error |-> error, loader_calls |-> loader_calls,
     split_calls |-> split_calls, add_calls |-> add_calls, store |-> store]

\* the extension check comes after the load
process_document_load_first(store, file_path, document_type) ==
    IF ~exists(file_path)
    THEN {Outcome("False", "FileNotFoundError", 0, 0, 0, store)}
    ELSE IF ~Loadable(file_path)
    THEN {Outcome("False", "LoaderError", 1, 0, 0, store)}
    ELSE IF lower(suffix(file_path)) \notin SupportedSet
    THEN {Outcome("False", "ValueError", 1, 0, 0, store)}
    ELSE {Outcome("True", "none", 1, 1, 1,
                  store \o split_documents(load(file_path, document_type))),
          Outcome("False", "SplitError", 1, 1, 0, store),
          Outcome("False", "IndexError", 1, 1, 1, store)}

\* the loaded documents are added before they are split, the chunks after
process_document_add_before_split(store, file_path, document_type) ==
    IF ~exists(file_path)
    THEN {Outcome("False", "FileNotFoundError", 0, 0, 0, store)}
    ELSE IF lower(suffix(file_path)) \notin SupportedSet
    THEN {Outcome("False", "ValueError", 0, 0, 0, store)}
    ELSE IF ~Loadable(file_path)
    THEN {Outcome("False", "LoaderError", 1, 0, 0, store)}
    ELSE {Outcome("True", "none", 1, 1, 2,
                  store \o load(file_path, document_type)
                        \o split_documents(load(file_path, document_type))),
          Outcome("False", "SplitError", 1, 1, 1,
                  store \o load(file_path, document_type)),
          Outcome("False", "IndexError", 1, 1, 1, store)}

\* process_document: the ways a call can go: what it returns, the exception it
\* caught and printed, the collaborator calls it made, and the collection after.
\* A file that exists with a supported extension may fail to load; a loaded
\* one may fail in the splitter or in the collection's add_documents.
process_document(store, file_path, document_type) ==
    IF ~exists(file_path)
    THEN {Outcome("False", "FileNotFoundError", 0, 0, 0, store)}
    ELSE IF lower(suffix(file_path)) \notin SupportedSet
    THEN {Outcome("False", "ValueError", 0, 0, 0, store)}
    ELSE IF ~Loadable(file_path)
    THEN {Outcome("False", "LoaderError", 1, 0, 0, store)}
    ELSE {Outcome("True", "none", 1, 1, 1,
                  store \o split_documents(load(file_path, document_type))),
          Outcome("False", "SplitError", 1, 1, 0, store),
          Outcome("False", "IndexError", 1, 1, 1, store)}

\* the record of one process_document call
DocRecord(op, file_path, before, o) ==
    [op |-> op, file_path |-> file_path, ret |-> o.ret, error |-> o.error,
     loader_calls |-> o.loader_calls, split_calls |-> o.split_calls,
     add_calls |-> o.add_calls, count_before |-> Len(before), count_after |-> Len(o.store)]

-----------------------------------------------------------------------------
(* processor.py: the operations *)

NoStats == [total |-> 0, successful |-> 0, failed |-> 0]

CanStart == dpc = "idle" /\ Len(opLog) < MaxOps

\* the number of the operation under way
ThisOp == Len(opLog) + 1

\* main() choice 1: process_document on a path the user gave
process_document_call(file_path, document_type) ==
    /\ CanStart
    /\ \E o \in process_document(vectorstore, file_path, document_type) :
        /\ vectorstore' = o.store
        /\ docLog' = Append(docLog, DocRecord(ThisOp, file_path, vectorstore, o))
        /\ opLog' = Append(opLog, [op |-> "process_document", arg |-> file_path,
                                   document_type |-> document_type,
                                   ret |-> o.ret, stats |-> NoStats])
    /\ UNCHANGED <<fs, dpc, job, pipelineVars>>

\* process_directory lines 73-82: the path is a directory
process_directory_begin(directory_path, document_type) ==
    /\ CanStart
    /\ exists(directory_path) /\ is_dir(directory_path)
    /\ job' = [directory_path |-> directory_path, document_type |-> document_type,
               ext |-> 1, files |-> {}, stats |-> NoStats]
    /\ dpc' = "glob"
    /\ UNCHANGED <<vectorstore, fs, docLog, opLog, pipelineVars>>

\* NotADirectoryError is not caught and reaches the caller
process_directory_except_uncaught(directory_path, document_type) ==
    /\ CanStart
    /\ ~(exists(directory_path) /\ is_dir(directory_path))
    /\ opLog' = Append(opLog, [op |-> "process_directory", arg |-> directory_path,
                               document_type |-> document_type,
                               ret |-> "NotADirectoryError", stats |-> NoStats])
    /\ UNCHANGED <<vectorstore, fs, dpc, job, docLog, pipelineVars>>

\* process_directory lines 81-82, 95-98: the path is no directory;
\* NotADirectoryError is caught and the stats are returned as they are
process_directory_except(directory_path, document_type) ==
    /\ CanStart
    /\ ~(exists(directory_path) /\ is_dir(directory_path))
    /\ opLog' = Append(opLog, [op |-> "process_directory", arg |-> directory_path,
                               document_type |-> document_type,
                               ret |-> "stats", stats |-> NoStats])
    /\ UNCHANGED <<vectorstore, fs, dpc, job, docLog, pipelineVars>>

\* process_directory lines 85-87: the files of the next extension are listed
\* and counted
process_directory_glob ==
    /\ dpc = "glob"
    /\ job.ext <= Len(SUPPORTED_EXTENSIONS)
    /\ LET files == glob(job.directory_path, SUPPORTED_EXTENSIONS[job.ext])
       IN job' = [job EXCEPT !.files = files,
                             !.stats.total = @ + Cardinality(files)]
    /\ dpc' = "files"
    /\ UNCHANGED <<vectorstore, fs, docLog, opLog, pipelineVars>>

\* a file that fails ends the scan
process_directory_file_abort ==
    /\ dpc = "files"
    /\ job.files # {}
    /\ \E file_path \in job.files :
       \E o \in process_document(vectorstore, file_path, job.document_type) :
        /\ vectorstore' = o.store
        /\ docLog' = Append(docLog, DocRecord(ThisOp, file_path, vectorstore, o))
        /\ IF o.ret = "True"
           THEN /\ job' = [job EXCEPT !.files = @ \ {file_path}, !.stats.successful = @ + 1]
                /\ dpc' = dpc
           ELSE /\ job' = [job EXCEPT !.files = {}, !.stats.failed = @ + 1,
                                      !.ext = Len(SUPPORTED_EXTENSIONS)]
                /\ dpc' = dpc
    /\ UNCHANGED <<fs, opLog, pipelineVars>>

\* process_directory lines 89-93: the next listed file is processed and counted
process_directory_file ==
    /\ dpc = "files"
    /\ job.files # {}
    /\ \E file_path \in job.files :
       \E o \in process_document(vectorstore, file_path, job.document_type) :
        /\ vectorstore' = o.store
        /\ docLog' = Append(docLog, DocRecord(ThisOp, file_path, vectorstore, o))
        /\ IF o.ret = "True"
           THEN job' = [job EXCEPT !.files = @ \ {file_path}, !.stats.successful = @ + 1]
           ELSE job' = [job EXCEPT !.files = @ \ {file_path}, !.stats.failed = @ + 1]
    /\ UNCHANGED <<fs, dpc, opLog, pipelineVars>>

\* process_directory line 85: the files of this extension are done, on to the
\* next extension
process_directory_next ==
    /\ dpc = "files"
    /\ job.files = {}
    /\ job.ext < Len(SUPPORTED_EXTENSIONS)
    /\ job' = [job EXCEPT !.ext = @ + 1]
    /\ dpc' = "glob"
    /\ UNCHANGED <<vectorstore, fs, docLog, opLog, pipelineVars>>

\* process_directory line 98: every extension is done, the stats are returned
process_directory_return ==
    /\ dpc = "files"
    /\ job.files = {}
    /\ job.ext = Len(SUPPORTED_EXTENSIONS)
    /\ opLog' = Append(opLog, [op |-> "process_directory", arg |-> job.directory_path,
                               document_type |-> job.document_type,
                               ret |-> "stats", stats |-> job.stats])
    /\ dpc' = "idle"
    /\ UNCHANGED <<vectorstore, fs, job, docLog, pipelineVars>>

-----------------------------------------------------------------------------
(* Specification of the Processor *)

kb == <<"k", "b">>
sub == <<"s", "u", "b">>
File(path, readable, text) == [path |-> path, kind |-> "file", readable |-> readable, text |-> text]
Dir(path) == [path |-> path, kind |-> "dir", readable |-> FALSE, text |-> << >>]

\* the directories that exist
Directories == {Dir(<<kb>>), Dir(<<kb, sub>>)}

\* the files that may exist: kb/a.pdf, kb/b.txt (unreadable), kb/sub/c.md,
\* kb/D.PDF, kb/e.doc, kb/.pdf, kb/f.txt
Files ==
    {File(<<kb, <<"a", ".", "p", "d", "f">>>>, TRUE, <<"alpha">>),
     File(<<kb, <<"b", ".", "t", "x", "t">>>>, FALSE, << >>),
     File(<<kb, sub, <<"c", ".", "m", "d">>>>, TRUE, <<"gamma", "delta">>),
     File(<<kb, <<"D", ".", "P", "D", "F">>>>, TRUE, <<"upper">>),
     File(<<kb, <<"e", ".", "d", "o", "c">>>>, TRUE, <<"word">>),
     File(<<kb, <<".", "p", "d", "f">>>>, TRUE, <<"hidden">>),
     File(<<kb, <<"f", ".", "t", "x", "t">>>>, TRUE, <<"phi">>)}

\* the paths a user may give: those of Files and Directories, and one of nothing
Missing == <<<<"n", "o", "n", "e">>>>
PathArgs == {f.path : f \in Files \cup Directories} \cup {Missing}
DocumentTypes == {"", "notes"}

InitIngest ==
    /\ vectorstore = << >>
    /\ PipelineInit
    /\ \E chosen \in SUBSET Files :
        /\ Cardinality(chosen) <= MaxFiles
        /\ fs = Directories \cup chosen
    /\ dpc = "idle"
    /\ job = [directory_path |-> << >>, document_type |-> "", ext |-> 0, files |-> {},
              stats |-> NoStats]
    /\ docLog = << >>
    /\ opLog = << >>

NextIngest ==
    \/ \E file_path \in PathArgs, t \in DocumentTypes : process_document_call(file_path, t)
    \/ \E path \in PathArgs, t \in DocumentTypes : process_directory_begin(path, t)
    \/ \E path \in PathArgs, t \in DocumentTypes : process_directory_except(path, t)
    \/ process_directory_glob
    \/ process_directory_file
    \/ process_directory_next
    \/ process_directory_return

SpecIngest == InitIngest /\ [][NextIngest]_vars

\* a text of n characters c
Letters(n, c) == [i \in 1..n |-> c]

\* the lengths of a run of letters: none, one, a window's stride, and those
\* within MaxSlack of chunk_size
BlockLengths ==
    {0, 1, chunk_size - chunk_overlap} \cup (chunk_size - MaxSlack)..(chunk_size + MaxSlack)

\* what may stand between two runs of letters
Gaps == {<< >>, <<" ">>, <<"\n">>, <<"\n", "\n">>}

\* the texts a file to split may hold: a run of a, a gap, a run of b
Texts ==
    {Letters(n1, "a") \o gap \o Letters(n2, "b") :
        n1 \in BlockLengths, gap \in Gaps, n2 \in BlockLengths}

\* kb/notes.txt
notes == <<kb, <<"n", "o", "t", "e", "s", ".", "t", "x", "t">>>>

\* a Processor is asked to ingest one readable text file, of any of Texts
InitSplit ==
    /\ vectorstore = << >>
    /\ PipelineInit
    /\ \E text \in Texts : fs = Directories \cup {File(notes, TRUE, text)}
    /\ dpc = "idle"
    /\ job = [directory_path |-> << >>, document_type |-> "", ext |-> 0, files |-> {},
              stats |-> NoStats]
    /\ docLog = << >>
    /\ opLog = << >>

NextSplit == \E t \in DocumentTypes : process_document_call(notes, t)

SpecSplit == InitSplit /\ [][NextSplit]_vars

-----------------------------------------------------------------------------
(* Properties of the Processor *)

\* the returned directory scans of an existing directory
Scans == {n \in 1..Len(opLog) : opLog[n].op = "process_directory" /\ is_dir(opLog[n].arg)}

\* the process_document calls operation n made
CallsOf(n) == {i \in 1..Len(docLog) : docLog[i].op = n}

\* the entries a scan of path lists
Listed(path) == UNION {glob(path, SUPPORTED_EXTENSIONS[i]) : i \in 1..Len(SUPPORTED_EXTENSIONS)}

InStore(chunk) == \E j \in 1..Len(vectorstore) : vectorstore[j] = chunk

\* every chunk of the file at path is in the collection
ChunksStored(path, document_type) ==
    LET chunks == split_documents(load(path, document_type))
    IN \A c \in 1..Len(chunks) : InStore(chunks[c])

\* C7: when process_directory returns for an existing directory, total is the
\* number of files the scan listed, every listed file was processed once
\* whether or not another failed, successful + failed = total, failed is the
\* number of calls that failed, and the chunks of every successful file are in
\* the collection.
C7_PartialFailure ==
    \A n \in Scans :
        LET stats == opLog[n].stats
            listed == Listed(opLog[n].arg)
        IN /\ stats.total = Cardinality(listed)
           /\ stats.successful + stats.failed = stats.total
           /\ stats.failed = Cardinality({i \in CallsOf(n) : docLog[i].ret = "False"})
           /\ stats.successful = Cardinality({i \in CallsOf(n) : docLog[i].ret = "True"})
           /\ {docLog[i].file_path : i \in CallsOf(n)} = listed
           /\ Cardinality(CallsOf(n)) = Cardinality(listed)
           /\ \A i \in CallsOf(n) :
                docLog[i].ret = "True" =>
                    /\ docLog[i].add_calls = 1
                    /\ ChunksStored(docLog[i].file_path, opLog[n].document_type)

\* one unreadable and two valid files: total 3, successful 2, failed 1, and a
\* file was ingested after the failure
C7_Witness ==
    \E n \in Scans :
        /\ opLog[n].stats = [total |-> 3, successful |-> 2, failed |-> 1]
        /\ \E i, j \in CallsOf(n) :
            i < j /\ docLog[i].error = "LoaderError" /\ docLog[j].ret = "True"

\* a file below path, as single-file ingestion sees it: its extension is supported
Accepted(path) == lower(suffix(path)) \in SupportedSet

FilesBelow(path) ==
    {f.path : f \in {g \in fs : /\ g.kind = "file"
                               /\ Len(g.path) > Len(path)
                               /\ SubSeq(g.path, 1, Len(path)) = path}}

\* C8 as stated: a directory scan counts and processes once every file below
\* the directory whose extension single-file ingestion accepts, and skips every
\* other file: it is not counted and process_document is not called for it.
C8_ScanAcceptsWhatSingleFileAccepts ==
    \A n \in Scans :
        /\ \A path \in FilesBelow(opLog[n].arg) :
            LET processed == {i \in CallsOf(n) : docLog[i].file_path = path}
            IN IF Accepted(path) THEN Cardinality(processed) = 1 ELSE processed = {}
        /\ opLog[n].stats.total =
                Cardinality({path \in FilesBelow(opLog[n].arg) : Accepted(path)})

\* C9 as stated: process_document tells its caller NotFoundError for a missing
\* path and UnsupportedTypeError for an unsupported extension, before any
\* loader, chunker or index call.
SingleCalls ==
    {i \in 1..Len(docLog) : /\ docLog[i].op <= Len(opLog)
                             /\ opLog[docLog[i].op].op = "process_document"}

NoCollaboratorCall(r) ==
    /\ r.loader_calls = 0 /\ r.split_calls = 0 /\ r.add_calls = 0
    /\ r.count_after = r.count_before

C9_DistinctErrorOutcomes ==
    \A i \in SingleCalls :
        LET r == docLog[i]
        IN /\ ~exists(r.file_path) =>
                r.ret \in {"NotFoundError", "FileNotFoundError"} /\ NoCollaboratorCall(r)
           /\ (exists(r.file_path) /\ ~Accepted(r.file_path)) =>
                r.ret \in {"UnsupportedTypeError", "ValueError"} /\ NoCollaboratorCall(r)

\* C9 as amended: process_document returns False both for a missing path and
\* for an unsupported extension; the two differ only in the exception it
\* caught and printed (FileNotFoundError, ValueError), and both are decided
\* before any loader, chunker or index call.
C9_BothReturnFalse ==
    \A i \in SingleCalls :
        LET r == docLog[i]
        IN /\ ~exists(r.file_path) =>
                r.ret = "False" /\ r.error = "FileNotFoundError" /\ NoCollaboratorCall(r)
           /\ (exists(r.file_path) /\ ~Accepted(r.file_path)) =>
                r.ret = "False" /\ r.error = "ValueError" /\ NoCollaboratorCall(r)

C9_Witness ==
    \E i \in SingleCalls :
        /\ exists(docLog[i].file_path) /\ ~is_dir(docLog[i].file_path)
        /\ docLog[i].error = "ValueError"

C9_WitnessMissing ==
    \E i \in SingleCalls : docLog[i].error = "FileNotFoundError"

\* the process_document calls that returned True
Ingested == {i \in 1..Len(docLog) : docLog[i].ret = "True"}

\* the text of the file at path
TextOf(path) == (CHOOSE f \in fs : f.path = path).text

\* the chunks call i of process_document added to the collection
StoredBy(i) == SubSeq(vectorstore, docLog[i].count_before + 1, docLog[i].count_after)

\* the chunks call i stored are the spans of the file's text, in order
StoredSpans(i, spans) ==
    LET text == TextOf(docLog[i].file_path)
        chunks == StoredBy(i)
    IN /\ Len(chunks) = Len(spans)
       /\ \A k \in 1..Len(spans) :
            chunks[k].page_content = SubSeq(text, spans[k].from, spans[k].to)

Covered(spans, p) == \E k \in 1..Len(spans) : spans[k].from <= p /\ p <= spans[k].to

\* the characters chunk k and chunk k + 1 share
Overlap(spans, k) ==
    IF spans[k].to < spans[k + 1].from THEN 0 ELSE spans[k].to - spans[k + 1].from + 1

\* C12 as stated: the chunks stored for a non-empty text cover every character
\* of the text, every chunk but the last is at most 1000 characters long, and
\* two consecutive chunks share at most 200 characters.
C12_ChunksCoverText ==
    \A i \in Ingested :
        LET text == TextOf(docLog[i].file_path)
            spans == split_spans(text)
        IN Len(text) > 0 =>
            /\ StoredSpans(i, spans)
            /\ \A p \in 1..Len(text) : Covered(spans, p)
            /\ \A k \in 1..(Len(spans) - 1) : SpanLen(spans[k]) <= 1000
            /\ \A k \in 1..(Len(spans) - 1) : Overlap(spans, k) <= 200

\* What does hold of the chunks: every character that is not whitespace is in
\* a chunk, no chunk begins or ends with whitespace, every chunk is at most
\* 1000 characters long, and two consecutive chunks share at most 200.
C12_ChunksCoverAllButWhitespace ==
    \A i \in Ingested :
        LET text == TextOf(docLog[i].file_path)
            spans == split_spans(text)
        IN /\ StoredSpans(i, spans)
           /\ \A p \in 1..Len(text) : text[p] \notin Whitespace => Covered(spans, p)
           /\ \A k \in 1..Len(spans) :
                /\ 1 <= SpanLen(spans[k]) /\ SpanLen(spans[k]) <= 1000
                /\ text[spans[k].from] \notin Whitespace
                /\ text[spans[k].to] \notin Whitespace
           /\ \A k \in 1..(Len(spans) - 1) : Overlap(spans, k) <= 200

\* a text longer than chunk_size without whitespace was cut into overlapping
\* windows
C12_WitnessWindows ==
    \E i \in Ingested :
        /\ docLog[i].count_after - docLog[i].count_before > 1
        /\ Overlap(split_spans(TextOf(docLog[i].file_path)), 1) = 200

\* the failures of process_document that come before its add_documents call
FailuresBeforeAdd == {"FileNotFoundError", "ValueError", "LoaderError", "SplitError"}

\* C17: every process_document call returns True or False; it makes at most
\* one add_documents call; when it returns True that call was made and added
\* all chunks of the file, in order, as one batch; when it returns False for a
\* missing path, an unsupported extension, a failed load or a failed split, no
\* add_documents call was made and the collection is as it was.
C17_SingleBatchOrNothing ==
    \A i \in 1..Len(docLog) :
        LET r == docLog[i]
        IN /\ r.ret \in {"True", "False"}
           /\ r.add_calls <= 1
           /\ r.ret = "True" =>
                /\ r.error = "none"
                /\ r.add_calls = 1
                /\ StoredSpans(i, split_spans(TextOf(r.file_path)))
           /\ r.error \in FailuresBeforeAdd =>
                /\ r.ret = "False"
                /\ r.add_calls = 0
                /\ r.count_after = r.count_before
           /\ r.ret = "False" => r.error # "none" /\ r.count_after = r.count_before

\* one file was ingested, the load of another failed and the split of a third
C17_Witness ==
    \E i, j, k \in 1..Len(docLog) :
        /\ docLog[i].ret = "True" /\ docLog[i].count_after > docLog[i].count_before
        /\ docLog[j].error = "LoaderError"
        /\ docLog[k].error = "SplitError"

\* the process_directory calls that returned
DirectoryCalls == {n \in 1..Len(opLog) : opLog[n].op = "process_directory"}

\* C18: process_directory always returns its stats; for a path that does not
\* exist or is not a directory they are total = 0, successful = 0, failed = 0
\* and no process_document call was made; at every point of a scan, and in
\* what it returns, successful + failed <= total.
C18_DirectoryNeverRaises ==
    /\ job.stats.successful + job.stats.failed <= job.stats.total
    /\ \A n \in DirectoryCalls :
            /\ opLog[n].ret = "stats"
            /\ opLog[n].stats.successful + opLog[n].stats.failed <= opLog[n].stats.total
            /\ ~(exists(opLog[n].arg) /\ is_dir(opLog[n].arg)) =>
                    /\ opLog[n].stats = [total |-> 0, successful |-> 0, failed |-> 0]
                    /\ CallsOf(n) = {}
                    /\ \A i \in 1..Len(docLog) : docLog[i].op # n

\* process_directory returned for the path of a file
C18_Witness ==
    \E n \in DirectoryCalls :
        /\ exists(opLog[n].arg) /\ ~is_dir(opLog[n].arg)
        /\ opLog[n].stats.total = 0

\* process_directory returned for a path that does not exist
C18_WitnessMissing ==
    \E n \in DirectoryCalls : ~exists(opLog[n].arg)

\* a scan under way has counted files it has not processed yet
C18_WitnessMidScan ==
    /\ dpc = "files"
    /\ job.stats.successful + job.stats.failed < job.stats.total
    /\ job.stats.failed > 0

====
